---- MODULE Spec2Model ----
(***************************************************************************)
(* Store Review Monitor: the change classifier, the notification gate, the *)
(* snapshot store and the run orchestrator, as implemented twice in the    *)
(* repository: the TypeScript GitHub Action (versionCache.ts and index.ts) *)
(* and the Go Bitrise step (main.go).  The variable impl says which of the *)
(* two programs is running.                                                *)
(***************************************************************************)
EXTENDS Integers, Sequences, FiniteSets, TLC

\* ------------------------------------------------------------------ bounds
\* App Store version labels and Google Play version codes are 1..MaxVersion.
MaxVersion == 2
\* App Store build numbers are 1..MaxBuild; NoBuild is the absent/empty build.
MaxBuild == 2

\* Calls of the Google Play fetch followed when it is modelled on its own.
MaxCalls == 4

\* buildNumber?: string (TS, undefined or "") / BuildNumber string (Go, "").
NoBuild == 0

\* status of a persisted entry that has no status field: undefined in the
\* TypeScript program, the zero value "" in the Go program.
NoStatus == ""

\* ------------------------------------------------------- optional values
\* null / undefined / nil is the empty tuple, a present value x is <<x>>.
Null == <<>>
Some(x) == <<x>>
IsNull(o) == o = <<>>
Get(o) == o[1]

\* ------------------------------------------------------------ vocabulary
Impls == {"ts", "go"}
Platforms == {"appStore", "googlePlay"}

AppStoreReviewStatus ==
  {"WAITING_FOR_REVIEW", "IN_REVIEW", "PENDING_DEVELOPER_RELEASE",
   "PROCESSING_FOR_APP_STORE", "PENDING_APPLE_RELEASE", "READY_FOR_SALE",
   "REJECTED", "METADATA_REJECTED", "REMOVED_FROM_SALE", "DEVELOPER_REJECTED",
   "DEVELOPER_REMOVED_FROM_SALE", "INVALID_BINARY"}

GooglePlayReviewStatus == {"draft", "inProgress", "halted", "completed"}

\* ---------------------------------------------------------------- strings
\* A string is the sequence of its characters.
Chars(s) ==
  CASE s = NoStatus -> <<>>
    [] s = "WAITING_FOR_REVIEW" ->
         <<"W","A","I","T","I","N","G","_","F","O","R","_","R","E","V","I","E","W">>
    [] s = "IN_REVIEW" ->
         <<"I","N","_","R","E","V","I","E","W">>
    [] s = "PENDING_DEVELOPER_RELEASE" ->
         <<"P","E","N","D","I","N","G","_","D","E","V","E","L","O","P","E","R","_","R","E","L","E","A","S","E">>
    [] s = "PROCESSING_FOR_APP_STORE" ->
         <<"P","R","O","C","E","S","S","I","N","G","_","F","O","R","_","A","P","P","_","S","T","O","R","E">>
    [] s = "PENDING_APPLE_RELEASE" ->
         <<"P","E","N","D","I","N","G","_","A","P","P","L","E","_","R","E","L","E","A","S","E">>
    [] s = "READY_FOR_SALE" ->
         <<"R","E","A","D","Y","_","F","O","R","_","S","A","L","E">>
    [] s = "REJECTED" ->
         <<"R","E","J","E","C","T","E","D">>
    [] s = "METADATA_REJECTED" ->
         <<"M","E","T","A","D","A","T","A","_","R","E","J","E","C","T","E","D">>
    [] s = "REMOVED_FROM_SALE" ->
         <<"R","E","M","O","V","E","D","_","F","R","O","M","_","S","A","L","E">>
    [] s = "DEVELOPER_REJECTED" ->
         <<"D","E","V","E","L","O","P","E","R","_","R","E","J","E","C","T","E","D">>
    [] s = "DEVELOPER_REMOVED_FROM_SALE" ->
         <<"D","E","V","E","L","O","P","E","R","_","R","E","M","O","V","E","D","_","F","R","O","M","_","S","A","L","E">>
    [] s = "INVALID_BINARY" ->
         <<"I","N","V","A","L","I","D","_","B","I","N","A","R","Y">>
    [] s = "draft" ->
         <<"d","r","a","f","t">>
    [] s = "inProgress" ->
         <<"i","n","P","r","o","g","r","e","s","s">>
    [] s = "halted" ->
         <<"h","a","l","t","e","d">>
    [] s = "completed" ->
         <<"c","o","m","p","l","e","t","e","d">>
    [] s = "pending_developer_release" ->
         <<"p","e","n","d","i","n","g","_","d","e","v","e","l","o","p","e","r","_","r","e","l","e","a","s","e">>
    [] s = "pending_apple_release" ->
         <<"p","e","n","d","i","n","g","_","a","p","p","l","e","_","r","e","l","e","a","s","e">>
    [] s = "ready_for_sale" ->
         <<"r","e","a","d","y","_","f","o","r","_","s","a","l","e">>
    [] s = "rejected" ->
         <<"r","e","j","e","c","t","e","d">>
    [] s = "metadata_rejected" ->
         <<"m","e","t","a","d","a","t","a","_","r","e","j","e","c","t","e","d">>
    [] s = "invalid_binary" ->
         <<"i","n","v","a","l","i","d","_","b","i","n","a","r","y">>

UpperToLower ==
  ("A" :> "a") @@ ("B" :> "b") @@ ("C" :> "c") @@ ("D" :> "d") @@ ("E" :> "e") @@ ("F" :> "f") @@
  ("G" :> "g") @@ ("H" :> "h") @@ ("I" :> "i") @@ ("J" :> "j") @@ ("K" :> "k") @@ ("L" :> "l") @@
  ("M" :> "m") @@ ("N" :> "n") @@ ("O" :> "o") @@ ("P" :> "p") @@ ("Q" :> "q") @@ ("R" :> "r") @@
  ("S" :> "s") @@ ("T" :> "t") @@ ("U" :> "u") @@ ("V" :> "v") @@ ("W" :> "w") @@ ("X" :> "x") @@
  ("Y" :> "y") @@ ("Z" :> "z")

\* String.prototype.toLowerCase / strings.ToLower on ASCII text.
ToLowerCase(cs) ==
  [i \in 1..Len(cs) |->
     IF cs[i] \in DOMAIN UpperToLower THEN UpperToLower[cs[i]] ELSE cs[i]]

\* String.prototype.includes / strings.Contains.
Includes(cs, sub) ==
  \E i \in 0..(Len(cs) - Len(sub)) : SubSeq(cs, i + 1, i + Len(sub)) = sub

\* The substring literals the two programs search for.
Patterns ==
  {"pending_developer_release", "pending_apple_release", "ready_for_sale",
   "rejected", "metadata_rejected", "invalid_binary", "completed", "halted"}

\* For every status of the vocabularies, the literals its lower-cased form
\* includes (computed once from the characters).
LowerIncludesTable ==
  [s \in AppStoreReviewStatus \cup GooglePlayReviewStatus \cup {NoStatus} |->
     {p \in Patterns : Includes(ToLowerCase(Chars(s)), Chars(p))}]

\* status.toLowerCase().includes(pattern) /
\* strings.Contains(strings.ToLower(status), pattern).
LowerIncludes(status, pattern) == pattern \in LowerIncludesTable[status]

\* fmt.Sprintf("%d", n): the decimal digits of n >= 0.
RECURSIVE Sprintf_d(_)
Sprintf_d(n) ==
  IF n < 10 THEN <<n>> ELSE Append(Sprintf_d(n \div 10), n % 10)

\* ------------------------------------------------------------------ state
VARIABLES
  impl,           \* which program runs: "ts" (GitHub Action) or "go" (Bitrise step)
  pc,             \* position of run: "idle", "appStore", "googlePlay", "save"
  stored,         \* the persisted record (artifact / cache file), Null if none
  previousCache,  \* run's previousCache, as returned by load
  currentCache,   \* run's currentCache, the record being built
  statusSent,     \* appStoreStatusSent / googlePlayStatusSent
  sends,          \* the platforms the notifier was called for, in order (history)
  fetched,        \* per platform, how this run's fetch ended (history)
  verdict,        \* per platform, the verdicts this run computed (history)
  loadOk,         \* this run's load returned the persisted record (history)
  store,          \* what each store holds, when pinned for the whole behaviour
  track,          \* the platform whose history across runs is recorded
  prevRun,        \* the previous run's verdict for track (history)
  prevSaved,      \* the previous run's save succeeded (history)
  notifiedBefore, \* an earlier run delivered a notification for track (history)
  exit,           \* how the last run ended: "none", "completed", "failed"
  saves,          \* results of the calls of save in the current or last run (history)
  loads,          \* calls of load in the current or last run (history)
  given,          \* per platform, the inputs found non-empty at its guard (history)
  notificationSent, \* the notification-sent output: "unset", "true", "false",
                  \* or "exportFailed" when the export itself failed (Go)
  slack,          \* the Slack inputs the last run's validation rejected, or Null
  prevFetchFailed, \* the previous run's fetch for track failed (history)
  fnPlatform,     \* the classifier on its own: platform, current review info
  fnCur,
  fnVerdict,      \* and its result
  gp              \* the Google Play fetch on its own: its position and edits

vars ==
  <<impl, pc, stored, previousCache, currentCache, statusSent, sends, fetched,
    verdict,
    loadOk, store, track, prevRun, prevSaved, notifiedBefore, exit,
    saves, loads, given, notificationSent, slack, prevFetchFailed, fnPlatform,
    fnCur, fnVerdict, gp>>

\* ------------------------------------------------------------- data model
\* VersionCache.appStore / AppStoreCacheEntry (appId is configuration).
AppStoreEntries ==
  [version : 1..MaxVersion, buildNumber : {NoBuild} \cup (1..MaxBuild),
   status : AppStoreReviewStatus]

\* VersionCache.googlePlay / GooglePlayCacheEntry (versionName is never set).
GooglePlayEntries ==
  [versionCode : 1..MaxVersion, status : GooglePlayReviewStatus]

EntriesOf(platform) ==
  IF platform = "appStore" THEN AppStoreEntries ELSE GooglePlayEntries

\* A VersionCache record: one optional entry per platform.
EmptyCache == [appStore |-> Null, googlePlay |-> Null]

\* ------------------------------------------------------ change classifier
\* Mutant: the version comparison written with === instead of !==.
TS_hasVersionOrBuildChanged_Negated(platform, currentVersion, currentBuild, previous) ==
  IF IsNull(previous) THEN TRUE
  ELSE LET previousData == Get(previous)[platform] IN
    IF IsNull(previousData) THEN TRUE
    ELSE IF platform = "appStore"
      THEN LET versionChanged == Get(previousData).version = currentVersion
               buildChanged == currentBuild # NoBuild
                               /\ Get(previousData).buildNumber # currentBuild
           IN versionChanged \/ buildChanged
      ELSE Get(previousData).versionCode = currentVersion

\* Mutant: a record without an entry for the platform is not a cold start.
TS_hasVersionOrBuildChanged_NoEntryCheck(platform, currentVersion, currentBuild, previous) ==
  IF IsNull(previous) THEN TRUE
  ELSE LET previousData == Get(previous)[platform] IN
    IF IsNull(previousData) THEN FALSE
    ELSE IF platform = "appStore"
      THEN LET versionChanged == Get(previousData).version # currentVersion
               buildChanged == currentBuild # NoBuild
                               /\ Get(previousData).buildNumber # currentBuild
           IN versionChanged \/ buildChanged
      ELSE Get(previousData).versionCode # currentVersion

\* Mutant: only the version is compared, the build number is ignored.
TS_hasVersionOrBuildChanged_VersionOnly(platform, currentVersion, currentBuild, previous) ==
  IF IsNull(previous) THEN TRUE
  ELSE LET previousData == Get(previous)[platform] IN
    IF IsNull(previousData) THEN TRUE
    ELSE IF platform = "appStore"
      THEN Get(previousData).version # currentVersion
      ELSE Get(previousData).versionCode # currentVersion

\* Mutant: the build comparison without the `currentBuild &&` guard.
TS_hasVersionOrBuildChanged_NoGuard(platform, currentVersion, currentBuild, previous) ==
  IF IsNull(previous) THEN TRUE
  ELSE LET previousData == Get(previous)[platform] IN
    IF IsNull(previousData) THEN TRUE
    ELSE IF platform = "appStore"
      THEN LET versionChanged == Get(previousData).version # currentVersion
               buildChanged == Get(previousData).buildNumber # currentBuild
           IN versionChanged \/ buildChanged
      ELSE Get(previousData).versionCode # currentVersion

\* VersionCacheManager.hasVersionOrBuildChanged (TypeScript).  The result of
\* `versionChanged || buildChanged` is used for its truthiness.
TS_hasVersionOrBuildChanged(platform, currentVersion, currentBuild, previous) ==
  IF IsNull(previous) THEN TRUE
  ELSE LET previousData == Get(previous)[platform] IN
    IF IsNull(previousData) THEN TRUE
    ELSE IF platform = "appStore"
      THEN LET versionChanged == Get(previousData).version # currentVersion
               buildChanged == currentBuild # NoBuild
                               /\ Get(previousData).buildNumber # currentBuild
           IN versionChanged \/ buildChanged
      ELSE Get(previousData).versionCode # currentVersion

\* Mutant: the build comparison without the `buildNumber != ""` guard.
Go_hasVersionOrBuildChanged_NoGuard(platform, version, buildNumber, previous) ==
  IF IsNull(previous) THEN TRUE
  ELSE CASE platform = "appStore" ->
              IF IsNull(Get(previous).appStore) THEN TRUE
              ELSE IF Get(Get(previous).appStore).version # version THEN TRUE
              ELSE IF Get(Get(previous).appStore).buildNumber # buildNumber
                   THEN TRUE
              ELSE FALSE
         [] platform = "googlePlay" ->
              IF IsNull(Get(previous).googlePlay) THEN TRUE
              ELSE Sprintf_d(Get(Get(previous).googlePlay).versionCode) # version
         [] OTHER -> TRUE

\* Mutant: without a loaded record nothing is reported as changed.
Go_hasVersionOrBuildChanged_NilUnchanged(platform, version, buildNumber, previous) ==
  IF IsNull(previous) THEN FALSE
  ELSE CASE platform = "appStore" ->
              IF IsNull(Get(previous).appStore) THEN TRUE
              ELSE IF Get(Get(previous).appStore).version # version THEN TRUE
              ELSE IF buildNumber # NoBuild
                      /\ Get(Get(previous).appStore).buildNumber # buildNumber
                   THEN TRUE
              ELSE FALSE
         [] platform = "googlePlay" ->
              IF IsNull(Get(previous).googlePlay) THEN TRUE
              ELSE Sprintf_d(Get(Get(previous).googlePlay).versionCode) # version
         [] OTHER -> TRUE

\* Mutant: a record without an entry for the platform is not a cold start.
Go_hasVersionOrBuildChanged_NoEntryCheck(platform, version, buildNumber, previous) ==
  IF IsNull(previous) THEN TRUE
  ELSE CASE platform = "appStore" ->
              IF IsNull(Get(previous).appStore) THEN FALSE
              ELSE IF Get(Get(previous).appStore).version # version THEN TRUE
              ELSE IF buildNumber # NoBuild
                      /\ Get(Get(previous).appStore).buildNumber # buildNumber
                   THEN TRUE
              ELSE FALSE
         [] platform = "googlePlay" ->
              IF IsNull(Get(previous).googlePlay) THEN FALSE
              ELSE Sprintf_d(Get(Get(previous).googlePlay).versionCode) # version
         [] OTHER -> TRUE

\* hasVersionOrBuildChanged (Go).  For Google Play the caller passes the
\* version code formatted with %d.
Go_hasVersionOrBuildChanged(platform, version, buildNumber, previous) ==
  IF IsNull(previous) THEN TRUE
  ELSE CASE platform = "appStore" ->
              IF IsNull(Get(previous).appStore) THEN TRUE
              ELSE IF Get(Get(previous).appStore).version # version THEN TRUE
              ELSE IF buildNumber # NoBuild
                      /\ Get(Get(previous).appStore).buildNumber # buildNumber
                   THEN TRUE
              ELSE FALSE
         [] platform = "googlePlay" ->
              IF IsNull(Get(previous).googlePlay) THEN TRUE
              ELSE Sprintf_d(Get(Get(previous).googlePlay).versionCode) # version
         [] OTHER -> TRUE

\* Mutant: the previous status is searched without lower-casing it.
TS_hasRecoveredFromRejection_CaseSensitive(platform, currentStatus, previous) ==
  IF IsNull(previous) THEN FALSE
  ELSE LET previousData == Get(previous)[platform] IN
    IF IsNull(previousData) THEN FALSE
    ELSE LET wasRejected == Includes(Chars(Get(previousData).status),
                                     Chars("rejected"))
             isApproved ==
               \/ LowerIncludes(currentStatus, "ready_for_sale")
               \/ LowerIncludes(currentStatus, "pending_developer_release")
               \/ LowerIncludes(currentStatus, "pending_apple_release")
               \/ LowerIncludes(currentStatus, "completed")
         IN wasRejected /\ isApproved

\* VersionCacheManager.hasRecoveredFromRejection (TypeScript).
TS_hasRecoveredFromRejection(platform, currentStatus, previous) ==
  IF IsNull(previous) THEN FALSE
  ELSE LET previousData == Get(previous)[platform] IN
    IF IsNull(previousData) THEN FALSE
    ELSE LET wasRejected == LowerIncludes(Get(previousData).status, "rejected")
             isApproved ==
               \/ LowerIncludes(currentStatus, "ready_for_sale")
               \/ LowerIncludes(currentStatus, "pending_developer_release")
               \/ LowerIncludes(currentStatus, "pending_apple_release")
               \/ LowerIncludes(currentStatus, "completed")
         IN wasRejected /\ isApproved

\* rejectedStatuses / approvedStatuses of hasRecoveredFromRejection (Go).
rejectedStatuses == {"rejected", "metadata_rejected", "invalid_binary", "halted"}

approvedStatuses == {"ready_for_sale", "pending_developer_release", "completed"}

\* hasRecoveredFromRejection (Go).
Go_hasRecoveredFromRejection(platform, currentStatus, previous) ==
  IF IsNull(previous) THEN FALSE
  ELSE IF platform \notin Platforms THEN FALSE
  ELSE IF IsNull(Get(previous)[platform]) THEN FALSE
  ELSE LET previousStatus == Get(Get(previous)[platform]).status
           wasRejected == \E s \in rejectedStatuses : LowerIncludes(previousStatus, s)
           isApproved == \E s \in approvedStatuses : LowerIncludes(currentStatus, s)
       IN wasRejected /\ isApproved

\* ------------------------------------------------------ notification gate
\* Mutant: the allow-list also names Google Play's halted.
notifyStatuses_WithHalted ==
  {"pending_developer_release", "pending_apple_release", "ready_for_sale",
   "rejected", "metadata_rejected", "invalid_binary", "completed", "halted"}

\* Mutant: the allow-list without completed.
notifyStatuses_NoCompleted ==
  {"pending_developer_release", "pending_apple_release", "ready_for_sale",
   "rejected", "metadata_rejected", "invalid_binary"}

\* notifyStatuses of shouldSendNotification (the same list in both programs).
notifyStatuses ==
  {"pending_developer_release", "pending_apple_release", "ready_for_sale",
   "rejected", "metadata_rejected", "invalid_binary", "completed"}

\* shouldSendNotification (TypeScript and Go).
shouldSendNotification(status) ==
  \E s \in notifyStatuses : LowerIncludes(status, s)

\* ------------------------------------------------- one platform block of run
\* run's call of hasVersionOrBuildChanged for a platform's review info.
Changed(im, platform, cur, previous) ==
  IF im = "ts"
  THEN IF platform = "appStore"
       THEN TS_hasVersionOrBuildChanged("appStore", cur.version, cur.buildNumber,
                                        previous)
       ELSE TS_hasVersionOrBuildChanged("googlePlay", cur.versionCode, NoBuild,
                                        previous)
  ELSE IF platform = "appStore"
       THEN Go_hasVersionOrBuildChanged("appStore", cur.version, cur.buildNumber,
                                        previous)
       ELSE Go_hasVersionOrBuildChanged("googlePlay", Sprintf_d(cur.versionCode),
                                        NoBuild, previous)

\* Mutant: the recovery check always reads the stored App Store entry.
Recovered_AppStoreEntry(im, platform, cur, previous) ==
  IF im = "ts"
  THEN TS_hasRecoveredFromRejection("appStore", cur.status, previous)
  ELSE Go_hasRecoveredFromRejection("appStore", cur.status, previous)

\* run's call of hasRecoveredFromRejection for a platform's review info.
Recovered(im, platform, cur, previous) ==
  IF im = "ts"
  THEN TS_hasRecoveredFromRejection(platform, cur.status, previous)
  ELSE Go_hasRecoveredFromRejection(platform, cur.status, previous)

\* Mutant: the recovery signal is left out of the condition.
NotifyCondition_NoRecovery(changed, recovered, shouldNotify) ==
  changed /\ shouldNotify

\* Mutant: the status gate is left out of the condition.
NotifyCondition_NoGate(changed, recovered, shouldNotify) ==
  changed \/ recovered

\* The condition of `if ((changed || recovered) && shouldNotify)` in run.
NotifyCondition(changed, recovered, shouldNotify) ==
  (changed \/ recovered) /\ shouldNotify

\* Mutant: the status gate also requires a loaded record.
Classify_GateReadsHistory(im, platform, cur, previous) ==
  LET changed == Changed(im, platform, cur, previous)
      recovered == Recovered(im, platform, cur, previous)
      shouldNotify == shouldSendNotification(cur.status) /\ ~IsNull(previous)
  IN [changed |-> changed, recovered |-> recovered, shouldNotify |-> shouldNotify,
      fired |-> NotifyCondition(changed, recovered, shouldNotify)]

\* The three verdicts run computes for a platform with current data, and
\* whether it goes on to call the notifier.  cur is the fetched review info.
Classify(im, platform, cur, previous) ==
  LET changed == Changed(im, platform, cur, previous)
      recovered == Recovered(im, platform, cur, previous)
      shouldNotify == shouldSendNotification(cur.status)
  IN [changed |-> changed, recovered |-> recovered, shouldNotify |-> shouldNotify,
      fired |-> NotifyCondition(changed, recovered, shouldNotify)]

\* Statuses the stores report in the orchestrator runs.
RunStatuses(platform) ==
  IF platform = "appStore"
  THEN {"IN_REVIEW", "REJECTED", "READY_FOR_SALE"}
  ELSE {"inProgress", "completed"}

\* What a store can hold for a platform: the latest version with its build.
StoreData(platform) ==
  IF platform = "appStore"
  THEN [version : 1..MaxVersion, buildNumber : 1..MaxBuild,
        status : RunStatuses("appStore")]
  ELSE [versionCode : 1..MaxVersion, status : RunStatuses("googlePlay")]

\* The same for stores whose latest version never changes.
StableData(platform) ==
  {d \in StoreData(platform) :
     IF platform = "appStore"
     THEN d.version = MaxVersion /\ d.buildNumber = MaxBuild
     ELSE d.versionCode = MaxVersion}

NoFlags == [appStore |-> FALSE, googlePlay |-> FALSE]
Pending == [appStore |-> "pending", googlePlay |-> "pending"]
NoInputs == [appStore |-> {}, googlePlay |-> {}]

\* run's locals before a run starts and after it has ended.
NoRun ==
  /\ previousCache = Null
  /\ currentCache = EmptyCache
  /\ statusSent = NoFlags
  /\ sends = <<>>
  /\ fetched = Pending
  /\ verdict = EmptyCache
  /\ loadOk = FALSE
  /\ given = NoInputs

NoHistory ==
  /\ prevRun = Null
  /\ prevSaved = FALSE
  /\ notifiedBefore = FALSE
  /\ exit = "none"
  /\ saves = <<>>
  /\ loads = 0
  /\ notificationSent = "unset"
  /\ slack = Null
  /\ prevFetchFailed = FALSE

\* The Google Play fetch before its first call: no call in progress, no
\* edit open, no edit left behind.
NoFetch ==
  [step |-> "idle", hasEdit |-> FALSE, release |-> FALSE, result |-> "none",
   calls |-> 0, leaked |-> 0]

NoFn ==
  /\ fnPlatform = "appStore"
  /\ fnCur = Null
  /\ fnVerdict = Null
  /\ gp = NoFetch

\* The programs before their first run; the stores may change between runs.
Init ==
  /\ impl \in Impls
  /\ pc = "idle"
  /\ stored = Null
  /\ NoRun
  /\ store = EmptyCache
  /\ track = "appStore"
  /\ NoHistory
  /\ NoFn

\* The same, against stores whose latest version does not change.
InitStable ==
  /\ impl \in Impls
  /\ pc = "idle"
  /\ stored = Null
  /\ NoRun
  /\ store \in [appStore : {Some(d) : d \in StableData("appStore")},
                googlePlay : {Some(d) : d \in StableData("googlePlay")}]
  /\ track \in Platforms
  /\ NoHistory
  /\ NoFn

Pinned == ~IsNull(store.appStore)

\* ------------------------------------------------------------ operations
\* What is left of the cache file when the Go step dies inside os.WriteFile:
\* a prefix of the record's text, which does not parse.
Torn == <<"torn", "torn">>

\* loadPreviousVersions / loadCache: the persisted record, or null when it
\* is missing or cannot be read or parsed.
Load(readFails) == IF readFails \/ stored = Torn THEN Null ELSE stored

\* A persisted record that still parses although its platform entries have
\* lost their status field: `JSON.parse(cacheContent) as VersionCache` and
\* json.Unmarshal both return it without looking at the fields.
LacksStatus(record) ==
  IF IsNull(record) THEN Null
  ELSE Some([p \in Platforms |->
               IF IsNull(Get(record)[p]) THEN Null
               ELSE Some([Get(Get(record)[p]) EXCEPT !.status = NoStatus])])

\* The Slack inputs, each empty (FALSE) or non-empty (TRUE).
SlackConfigs == [webhookUrl : BOOLEAN, botToken : BOOLEAN, channel : BOOLEAN]

\* Mutant: a bot token is accepted without a channel.
validateConfig_NoChannelCheck(cfg) ==
  ~(~cfg.webhookUrl /\ ~cfg.botToken)

\* validateConfig (Go) / the two `throw new Error` checks of run (TS): TRUE
\* when the Slack inputs are accepted.
validateConfig(cfg) ==
  /\ ~(~cfg.webhookUrl /\ ~cfg.botToken)
  /\ ~(cfg.botToken /\ ~cfg.channel)

\* The inputs of a platform's guard.
InputsOf(platform) ==
  IF platform = "appStore"
  THEN {"app-store-issuer-id", "app-store-key-id", "app-store-private-key",
        "app-store-app-id"}
  ELSE {"google-play-package-name", "google-play-service-account"}

\* The ways a platform's inputs are given in the runs: all of them, all but
\* one of them, or none.
InputChoices(platform) ==
  {InputsOf(platform), {}}
    \cup {InputsOf(platform) \ {i} : i \in InputsOf(platform)}

\* Mutant: the guard is written with || instead of &&.
Configured_Any(platform, nonEmpty) ==
  \E i \in InputsOf(platform) : i \in nonEmpty

\* The guard of a platform block: every input of the platform is non-empty.
Configured(platform, nonEmpty) ==
  \A i \in InputsOf(platform) : i \in nonEmpty

\* Mutant: currentCache starts from the loaded record instead of empty.
StartRun_CarryForward ==
  /\ pc = "idle"
  /\ \E cfg \in SlackConfigs : validateConfig(cfg)
  /\ \E readFails \in BOOLEAN, damaged \in BOOLEAN :
       /\ previousCache' = IF damaged THEN LacksStatus(Load(readFails))
                           ELSE Load(readFails)
       /\ loadOk' = (~readFails /\ ~damaged /\ stored # Torn)
  /\ loads' = 1
  /\ currentCache' = IF IsNull(previousCache') THEN EmptyCache
                     ELSE Get(previousCache')
  /\ statusSent' = NoFlags
  /\ sends' = <<>>
  /\ fetched' = Pending
  /\ verdict' = EmptyCache
  /\ given' = NoInputs
  /\ exit' = "none"
  /\ saves' = <<>>
  /\ notificationSent' = "unset"
  /\ slack' = Null
  /\ pc' = "appStore"
  /\ UNCHANGED <<impl, stored, store, track, prevRun, prevSaved, notifiedBefore,
                 prevFetchFailed, fnPlatform, fnCur, fnVerdict, gp>>

\* run, from its start to the first platform, with Slack inputs that pass
\* validation: load, then a fresh currentCache.  The persisted record may
\* have been damaged since it was written.
StartRun ==
  /\ pc = "idle"
  /\ \E cfg \in SlackConfigs : validateConfig(cfg)
  /\ \E readFails \in BOOLEAN, damaged \in BOOLEAN :
       /\ previousCache' = IF damaged THEN LacksStatus(Load(readFails))
                           ELSE Load(readFails)
       /\ loadOk' = (~readFails /\ ~damaged /\ stored # Torn)
  /\ loads' = 1
  /\ currentCache' = EmptyCache
  /\ statusSent' = NoFlags
  /\ sends' = <<>>
  /\ fetched' = Pending
  /\ verdict' = EmptyCache
  /\ given' = NoInputs
  /\ exit' = "none"
  /\ saves' = <<>>
  /\ notificationSent' = "unset"
  /\ slack' = Null
  /\ pc' = "appStore"
  /\ UNCHANGED <<impl, stored, store, track, prevRun, prevSaved, notifiedBefore,
                 prevFetchFailed, fnPlatform, fnCur, fnVerdict, gp>>

\* getReviewStatus / getAppStoreReviewStatus / getGooglePlayReviewStatus seen
\* from run: the review info of the store's latest version.  A failed build
\* lookup (App Store only) leaves the build number absent.
ReviewInfo(platform, data, buildLookupFails) ==
  IF platform = "appStore" /\ buildLookupFails
  THEN [data EXCEPT !.buildNumber = NoBuild]
  ELSE data

\* `previousData.status.toLowerCase()` in the TypeScript
\* hasRecoveredFromRejection raises a TypeError when the loaded entry has no
\* status; the Go program reads the zero value instead.
TS_StatusRaises(platform, previous) ==
  /\ ~IsNull(previous)
  /\ ~IsNull(Get(previous)[platform])
  /\ Get(Get(previous)[platform]).status = NoStatus

\* Mutant: the entry is recorded only where the loaded record had none.
Recorded_KeepLoaded(cache, platform, reviewInfo, previous) ==
  IF IsNull(previous) \/ IsNull(Get(previous)[platform])
  THEN [cache EXCEPT ![platform] = Some(reviewInfo)]
  ELSE [cache EXCEPT ![platform] = Get(previous)[platform]]

\* `currentCache.appStore = {...}` / `currentCache.googlePlay = {...}`: the
\* platform's entry of the new record is the fetched review info.
Recorded(cache, platform, reviewInfo, previous) ==
  [cache EXCEPT ![platform] = Some(reviewInfo)]

\* Mutant: the build is joined even when it is absent.
Payload_AlwaysJoined(platform, reviewInfo, previous) ==
  LET prior == IF IsNull(previous) THEN Null ELSE Get(previous)[platform]
      previousStatus == IF IsNull(prior) THEN NoStatus ELSE Get(prior).status
  IN [platform |-> IF platform = "appStore" THEN "App Store" ELSE "Google Play",
      version |->
        IF platform = "appStore"
        THEN ToString(reviewInfo.version) \o " ("
               \o ToString(reviewInfo.buildNumber) \o ")"
        ELSE ToString(reviewInfo.versionCode),
      currentStatus |-> reviewInfo.status,
      previousStatus |-> IF previousStatus = NoStatus THEN Null
                         ELSE Some(previousStatus)]

\* The NotificationPayload built in a platform block (TypeScript) / the
\* arguments of sendSlackNotification (Go).  The version is the template
\* `${version} (${buildNumber})` / Sprintf("%s (%s)") when the build number
\* is truthy / non-empty, else the version; Google Play sends the version
\* code in decimal.  previousStatus is `previousStatus || undefined` in
\* TypeScript and a string that the Go sender leaves out when it is empty.
Payload(platform, reviewInfo, previous) ==
  LET prior == IF IsNull(previous) THEN Null ELSE Get(previous)[platform]
      previousStatus == IF IsNull(prior) THEN NoStatus ELSE Get(prior).status
  IN [platform |-> IF platform = "appStore" THEN "App Store" ELSE "Google Play",
      version |->
        IF platform = "appStore"
        THEN IF reviewInfo.buildNumber # NoBuild
             THEN ToString(reviewInfo.version) \o " ("
                    \o ToString(reviewInfo.buildNumber) \o ")"
             ELSE ToString(reviewInfo.version)
        ELSE ToString(reviewInfo.versionCode),
      currentStatus |-> reviewInfo.status,
      previousStatus |-> IF previousStatus = NoStatus THEN Null
                         ELSE Some(previousStatus)]

\* One platform block of run: skipped unless all its inputs are non-empty;
\* otherwise fetch, record the snapshot, classify, and notify when the
\* condition holds.  An exception raised inside the block is caught by the
\* block and logged.
PlatformStep(platform, next) ==
  /\ pc = platform
  /\ pc' = next
  /\ \E nonEmpty \in InputChoices(platform) :
       /\ given' = [given EXCEPT ![platform] = nonEmpty]
       /\ IF ~Configured(platform, nonEmpty)
          THEN /\ fetched' = [fetched EXCEPT ![platform] = "skipped"]
               /\ UNCHANGED <<currentCache, statusSent, sends, verdict>>
          ELSE \/ \E outcome \in {"error", "none"} :
                    /\ fetched' = [fetched EXCEPT ![platform] = outcome]
                    /\ UNCHANGED <<currentCache, statusSent, sends, verdict>>
               \/ \E data \in (IF Pinned THEN {Get(store[platform])}
                               ELSE StoreData(platform)),
                     buildLookupFails \in (IF platform = "appStore" THEN BOOLEAN
                                           ELSE {FALSE}),
                     sendFails \in BOOLEAN :
                    LET reviewInfo == ReviewInfo(platform, data, buildLookupFails)
                        raises == impl = "ts"
                                  /\ TS_StatusRaises(platform, previousCache)
                        v == Classify(impl, platform, reviewInfo, previousCache)
                        called == ~raises /\ v.fired
                        sent == called /\ ~sendFails
                    IN /\ called \/ ~sendFails
                       /\ fetched' = [fetched EXCEPT ![platform] = "data"]
                       /\ currentCache' = Recorded(currentCache, platform,
                                                   reviewInfo, previousCache)
                       /\ statusSent' = [statusSent EXCEPT ![platform] = sent]
                       /\ sends' = IF called THEN Append(sends, platform)
                                 ELSE sends
                       /\ verdict' = [verdict EXCEPT ![platform] =
                            IF raises THEN Null
                            ELSE Some([cold |-> IsNull(previousCache)
                                                \/ IsNull(Get(previousCache)[platform]),
                                       cur |-> reviewInfo,
                                       changed |-> v.changed,
                                       recovered |-> v.recovered,
                                       shouldNotify |-> v.shouldNotify,
                                       fired |-> v.fired,
                                       payload |->
                                         IF called
                                         THEN Some(Payload(platform, reviewInfo,
                                                           previousCache))
                                         ELSE Null,
                                       delivered |-> sent])]
  /\ UNCHANGED <<impl, stored, previousCache, loadOk, store, track, prevRun,
                 prevSaved, notifiedBefore, exit, saves, loads, notificationSent,
                 slack, prevFetchFailed, fnPlatform, fnCur, fnVerdict, gp>>

\* The end of run, after save, through the outer catch or by an early
\* return: the history of the tracked platform is taken, and run's locals
\* go out of scope.
EndRun(how, saved) ==
  /\ exit' = how
  /\ prevSaved' = IF Pinned THEN saved ELSE prevSaved
  /\ prevRun' = IF Pinned THEN verdict[track] ELSE prevRun
  /\ prevFetchFailed' = IF Pinned THEN fetched[track] = "error"
                        ELSE prevFetchFailed
  /\ notifiedBefore' =
       IF Pinned
       THEN notifiedBefore
            \/ (~IsNull(verdict[track]) /\ Get(verdict[track]).delivered)
       ELSE notifiedBefore
  /\ pc' = "idle"
  /\ previousCache' = Null
  /\ currentCache' = EmptyCache
  /\ statusSent' = NoFlags
  /\ sends' = <<>>
  /\ fetched' = Pending
  /\ verdict' = EmptyCache
  /\ loadOk' = FALSE
  /\ given' = NoInputs
  /\ UNCHANGED <<impl, store, track, fnPlatform, fnCur, fnVerdict, gp>>

\* run with Slack inputs that fail validation.  The TypeScript run has
\* already loaded the record when it throws into the outer catch (setFailed);
\* the Go run returns 1 before loadCache.  Neither reaches a platform block
\* or the save.
ConfigurationError ==
  /\ pc = "idle"
  /\ \E cfg \in SlackConfigs :
       /\ ~validateConfig(cfg)
       /\ slack' = Some(cfg)
  /\ loads' = IF impl = "ts" THEN 1 ELSE 0
  /\ saves' = <<>>
  /\ notificationSent' = "unset"
  /\ UNCHANGED stored
  /\ EndRun("configError", FALSE)

\* `new GooglePlayConsoleMonitor(googlePlayConfig)` stands outside the Google
\* Play block's try: when the service account is not valid JSON its
\* JSON.parse raises into run's outer catch, which calls setFailed; the save
\* below it is not reached.  The Go program has no such constructor.
MonitorConstructorRaises ==
  /\ pc = "googlePlay"
  /\ impl = "ts"
  /\ UNCHANGED <<stored, saves, loads, notificationSent, slack>>
  /\ EndRun("failed", FALSE)

AppStoreStep == PlatformStep("appStore", "googlePlay")

\* Mutant: the Google Play block may be passed again.
GooglePlayStep_Repeated ==
  \/ PlatformStep("googlePlay", "googlePlay")
  \/ PlatformStep("googlePlay", "save")
  \/ MonitorConstructorRaises

GooglePlayStep ==
  \/ PlatformStep("googlePlay", "save")
  \/ MonitorConstructorRaises

\* `appStoreStatusSent || googlePlayStatusSent`, as published.
NotificationSent(sent) ==
  IF sent.appStore \/ sent.googlePlay THEN "true" ELSE "false"

\* saveCurrentVersions / saveCache writing `record`, then the publication of
\* notification-sent and the end of run.  The write can succeed, fail with
\* an error (logged), or be cut short by the death of the process: the Go
\* step writes the cache file in place, the TypeScript action writes a fresh
\* file that it uploads afterwards.  The Go export can fail (logged).
SaveAndPublish(record) ==
  /\ pc = "save"
  /\ \E outcome \in {"written", "error", "crash"},
        exportFails \in (IF impl = "go" THEN BOOLEAN ELSE {FALSE}) :
       /\ outcome = "crash" => ~exportFails
       /\ stored' = CASE outcome = "written" -> Some(record)
                      [] outcome = "error" -> stored
                      [] outcome = "crash" -> IF impl = "go" THEN Torn ELSE stored
       /\ saves' = Append(saves, outcome = "written")
       /\ notificationSent' =
            IF outcome = "crash" THEN "unset"
            ELSE IF exportFails THEN "exportFailed"
            ELSE NotificationSent(statusSent)
       /\ EndRun(IF outcome = "crash" THEN "crashed" ELSE "completed",
                 outcome = "written")
  /\ UNCHANGED <<loads, slack>>

\* Mutant: a platform without current data keeps the loaded record's entry.
Save_Merge ==
  SaveAndPublish([p \in Platforms |->
                    IF IsNull(currentCache[p]) /\ ~IsNull(previousCache)
                    THEN Get(previousCache)[p]
                    ELSE currentCache[p]])

\* Mutant: the entry of a platform whose delivery failed is left out.
Save_RollBack ==
  SaveAndPublish([p \in Platforms |->
                    IF ~IsNull(verdict[p]) /\ Get(verdict[p]).fired
                       /\ ~Get(verdict[p]).delivered
                    THEN Null
                    ELSE currentCache[p]])

\* Mutant: an error of the write ends the run as failed, nothing published.
Save_FatalWrite ==
  /\ pc = "save"
  /\ \E written \in BOOLEAN :
       /\ stored' = IF written THEN Some(currentCache) ELSE stored
       /\ saves' = Append(saves, written)
       /\ notificationSent' = IF written THEN NotificationSent(statusSent)
                              ELSE "unset"
       /\ EndRun(IF written THEN "completed" ELSE "failed", written)
  /\ UNCHANGED <<loads, slack>>

\* The end of run: currentCache is saved, notification-sent is published.
Save == SaveAndPublish(currentCache)

Next ==
  StartRun \/ ConfigurationError \/ AppStoreStep \/ GooglePlayStep \/ Save

Spec == Init /\ [][Next]_vars

SpecStable == InitStable /\ [][Next]_vars

\* ------------------------------------------------ the classifier on its own
\* The records load can return for a platform: none, one without an entry
\* for the platform, or one with any entry for it.
FnCaches(platform) ==
  {Null, Some(EmptyCache)}
    \cup {Some([EmptyCache EXCEPT ![platform] = Some(e)]) : e \in EntriesOf(platform)}

InitFn ==
  /\ impl \in Impls
  /\ pc = "fn"
  /\ stored = Null
  /\ fnPlatform \in Platforms
  /\ previousCache \in FnCaches(fnPlatform)
  /\ fnCur \in {Some(e) : e \in EntriesOf(fnPlatform)}
  /\ fnVerdict = Null
  /\ gp = NoFetch
  /\ currentCache = EmptyCache
  /\ statusSent = NoFlags
  /\ sends = <<>>
  /\ fetched = Pending
  /\ verdict = EmptyCache
  /\ loadOk = FALSE
  /\ given = NoInputs
  /\ store = EmptyCache
  /\ track = "appStore"
  /\ NoHistory

\* The verdicts of one platform block for the given inputs.
FnClassify ==
  /\ pc = "fn"
  /\ fnVerdict' = Some(Classify(impl, fnPlatform, Get(fnCur), previousCache))
  /\ pc' = "fnDone"
  /\ UNCHANGED <<impl, stored, previousCache, currentCache, statusSent, sends, fetched,
                 verdict, loadOk, store, track, prevRun, prevSaved, notifiedBefore,
                 exit, saves, loads, given, notificationSent, slack, prevFetchFailed,
                 fnPlatform, fnCur, gp>>

NextFn == FnClassify

SpecFn == InitFn /\ [][NextFn]_vars

\* ------------------------------------------- the Google Play fetch on its own
\* GooglePlayConsoleMonitor.getReviewStatus / getGooglePlayReviewStatus, one
\* action per request.  gp.hasEdit says that the edit this call created
\* exists at Google Play; gp.leaked counts the edits that still existed when
\* their call returned.
InitEdits ==
  /\ impl \in Impls
  /\ pc = "fetch"
  /\ stored = Null
  /\ NoRun
  /\ store = EmptyCache
  /\ track = "appStore"
  /\ NoHistory
  /\ NoFn

\* What the rest of the model leaves alone during the fetch.
FetchFrame ==
  UNCHANGED <<impl, pc, stored, previousCache, currentCache, statusSent, sends,
              fetched, verdict, loadOk, store, track, prevRun, prevSaved,
              notifiedBefore, exit, saves, loads, given, notificationSent,
              slack, prevFetchFailed, fnPlatform, fnCur, fnVerdict>>

\* The call returns r: `return` / `throw error` / `return nil, err`.
Returned(state, r) ==
  [state EXCEPT !.step = "idle", !.result = r,
                !.leaked = @ + (IF state.hasEdit THEN 1 ELSE 0)]

\* run calls the fetch.
GetReviewStatus ==
  /\ pc = "fetch"
  /\ gp.step = "idle"
  /\ gp.calls < MaxCalls
  /\ gp' = [gp EXCEPT !.step = "token", !.hasEdit = FALSE, !.release = FALSE,
                      !.result = "pending", !.calls = @ + 1]
  /\ FetchFrame

\* getAccessToken / getGoogleAccessToken: on failure the call ends.
GetAccessToken ==
  /\ pc = "fetch"
  /\ gp.step = "token"
  /\ \E ok \in BOOLEAN :
       gp' = IF ok THEN [gp EXCEPT !.step = "edits"] ELSE Returned(gp, "error")
  /\ FetchFrame

\* POST .../edits: creates the edit; on failure the call ends.
CreateEdit ==
  /\ pc = "fetch"
  /\ gp.step = "edits"
  /\ \E ok \in BOOLEAN :
       gp' = IF ok THEN [gp EXCEPT !.step = "tracks", !.hasEdit = TRUE]
             ELSE Returned(gp, "error")
  /\ FetchFrame

\* GET .../edits/{id}/tracks.  A failed request ends the call in both
\* programs.  The TypeScript method returns null at once when there is no
\* production release and goes on to the delete otherwise; the Go function
\* goes on to the delete in both cases.
GetTracks ==
  /\ pc = "fetch"
  /\ gp.step = "tracks"
  /\ \E answer \in {"production", "noProduction", "fails"} :
       gp' = IF answer = "fails" THEN Returned(gp, "error")
             ELSE IF impl = "ts" /\ answer = "noProduction"
                  THEN Returned(gp, "null")
                  ELSE [gp EXCEPT !.step = "delete",
                                  !.release = (answer = "production")]
  /\ FetchFrame

\* DELETE .../edits/{id}.  The TypeScript method awaits it: a failure is
\* thrown, a success is followed by the return of the review info.  The Go
\* function ignores the outcome of the request and returns what the tracks
\* held.
DeleteEdit ==
  /\ pc = "fetch"
  /\ gp.step = "delete"
  /\ \E ok \in BOOLEAN :
       LET after == [gp EXCEPT !.hasEdit = ~ok] IN
       gp' = IF impl = "ts"
             THEN Returned(after, IF ok THEN "data" ELSE "error")
             ELSE Returned(after, IF gp.release THEN "data" ELSE "null")
  /\ FetchFrame

NextEdits ==
  GetReviewStatus \/ GetAccessToken \/ CreateEdit \/ GetTracks \/ DeleteEdit

SpecEdits == InitEdits /\ [][NextEdits]_vars

\* ------------------------------------------------------------ properties
\* The classifier has been applied to its inputs.
FnDone == ~IsNull(fnVerdict)

\* The prior snapshot of the platform being classified, Null on a cold start.
FnPrior ==
  IF IsNull(previousCache) THEN Null ELSE Get(previousCache)[fnPlatform]

\* The substring lists as the specification states them.
RejectionSubstrings == {"rejected", "metadata_rejected", "invalid_binary", "halted"}

ApprovalSubstrings == {"ready_for_sale", "pending_developer_release", "completed"}

MatchesAny(status, substrings) == \E s \in substrings : LowerIncludes(status, s)

\* C4: on a cold start (no stored record, or a record without an entry for
\* the platform) the classifier yields changed = true and recovered = false,
\* for every platform and every current observation.
C4_ColdStart ==
  (FnDone /\ IsNull(FnPrior)) =>
    (Get(fnVerdict).changed = TRUE /\ Get(fnVerdict).recovered = FALSE)

\* A record that exists but has no entry for the platform was classified.
C4_Witness ==
  /\ FnDone
  /\ previousCache = Some(EmptyCache)
  /\ fnPlatform = "googlePlay"
  /\ Get(fnVerdict).changed
  /\ ~Get(fnVerdict).recovered

\* C5 as stated: with a prior snapshot, hasVersionOrBuildChanged is false
\* exactly when the version and, for the App Store, the build identifier are
\* both unchanged from the prior snapshot.
C5_Original ==
  (FnDone /\ ~IsNull(FnPrior)) =>
    (Get(fnVerdict).changed = FALSE <=>
       IF fnPlatform = "appStore"
       THEN /\ Get(fnCur).version = Get(FnPrior).version
            /\ Get(fnCur).buildNumber = Get(FnPrior).buildNumber
       ELSE Get(fnCur).versionCode = Get(FnPrior).versionCode)

\* C5 amended: with a prior snapshot, hasVersionOrBuildChanged is false
\* exactly when the version is unchanged and, for the App Store, the current
\* build identifier is absent or equal to the prior one.
C5_Unchanged ==
  (FnDone /\ ~IsNull(FnPrior)) =>
    (Get(fnVerdict).changed = FALSE <=>
       IF fnPlatform = "appStore"
       THEN /\ Get(fnCur).version = Get(FnPrior).version
            /\ \/ Get(fnCur).buildNumber = NoBuild
               \/ Get(fnCur).buildNumber = Get(FnPrior).buildNumber
       ELSE Get(fnCur).versionCode = Get(FnPrior).versionCode)

\* Same version, prior build present, current build absent: not changed.
C5_Witness ==
  /\ FnDone
  /\ fnPlatform = "appStore"
  /\ ~IsNull(FnPrior)
  /\ Get(FnPrior).buildNumber # NoBuild
  /\ Get(fnCur).buildNumber = NoBuild
  /\ Get(fnCur).version = Get(FnPrior).version
  /\ Get(fnVerdict).changed = FALSE

\* C6: hasRecoveredFromRejection is true exactly when a prior snapshot
\* exists, the prior status matches a rejection substring and the current
\* status matches an approval substring; it is false whenever the prior
\* status itself matches an approval substring.
C6_RecoveredIff ==
  FnDone =>
    /\ Get(fnVerdict).recovered <=>
         /\ ~IsNull(FnPrior)
         /\ MatchesAny(Get(FnPrior).status, RejectionSubstrings)
         /\ MatchesAny(Get(fnCur).status, ApprovalSubstrings)
    /\ (~IsNull(FnPrior) /\ MatchesAny(Get(FnPrior).status, ApprovalSubstrings))
         => ~Get(fnVerdict).recovered

\* C7: the prior status counts as "was rejected" exactly when its lower-cased
\* form contains rejected, metadata_rejected, invalid_binary or halted: with
\* an approved current status, recovery is detected exactly for those prior
\* statuses, and it then notifies.
C7_WasRejected ==
  (/\ FnDone
   /\ ~IsNull(FnPrior)
   /\ Get(fnCur).status \in {"READY_FOR_SALE", "PENDING_DEVELOPER_RELEASE", "completed"}) =>
    /\ Get(fnVerdict).recovered <=>
         MatchesAny(Get(FnPrior).status, RejectionSubstrings)
    /\ MatchesAny(Get(FnPrior).status, RejectionSubstrings) => Get(fnVerdict).fired

\* C8: the current status counts as "now approved" exactly when its
\* lower-cased form contains ready_for_sale, pending_developer_release or
\* completed: after a rejected prior status, recovery is detected exactly for
\* those current statuses.
C8_NowApproved ==
  (/\ FnDone
   /\ ~IsNull(FnPrior)
   /\ Get(FnPrior).status \in {"REJECTED", "METADATA_REJECTED"}) =>
    (Get(fnVerdict).recovered <=>
       MatchesAny(Get(fnCur).status, ApprovalSubstrings))

\* C9: shouldSendNotification depends on the current status only: the value
\* computed for the current observation is the one computed for the same
\* observation against every other prior snapshot (absent, same or different
\* version, any prior status).
C9_GateIgnoresHistory ==
  FnDone =>
    \A other \in FnCaches(fnPlatform) :
      Classify(impl, fnPlatform, Get(fnCur), other).shouldNotify
        = Get(fnVerdict).shouldNotify

\* A status is notify-eligible against a prior snapshot of the same version
\* with an eligible status, where nothing changed.
C9_Witness ==
  /\ FnDone
  /\ ~IsNull(FnPrior)
  /\ Get(fnVerdict).shouldNotify
  /\ ~Get(fnVerdict).changed
  /\ ~Get(fnVerdict).recovered

\* The statuses of the two vocabularies whose lower-cased form contains no
\* entry of the notify allow-list.
OutsideAllowList ==
  {"WAITING_FOR_REVIEW", "IN_REVIEW", "PROCESSING_FOR_APP_STORE",
   "REMOVED_FROM_SALE", "DEVELOPER_REMOVED_FROM_SALE", "draft", "inProgress",
   "halted"}

\* C10: a current status outside the notify allow-list never triggers a
\* notification, also on a cold start or when the version or build changed.
C10_OutsideAllowListSilent ==
  (FnDone /\ Get(fnCur).status \in OutsideAllowList) => ~Get(fnVerdict).fired

\* WAITING_FOR_REVIEW with a changed version: no notification.
C10_Witness ==
  /\ FnDone
  /\ ~IsNull(FnPrior)
  /\ Get(fnCur).status = "WAITING_FOR_REVIEW"
  /\ Get(fnVerdict).changed
  /\ ~Get(fnVerdict).fired

\* C1: for each platform that has current data in a run, the notifier is
\* called exactly when (hasVersionOrBuildChanged or hasRecoveredFromRejection)
\* and shouldSendNotification(current status) hold for the loaded record; a
\* notification counts as sent only if the notifier was called.
C1_NotifyIff ==
  \A p \in Platforms :
    IF IsNull(verdict[p])
    THEN ~statusSent[p]
    ELSE LET v == Get(verdict[p]) IN
      /\ v.fired <=>
           /\ \/ Changed(impl, p, v.cur, previousCache)
              \/ Recovered(impl, p, v.cur, previousCache)
           /\ shouldSendNotification(v.cur.status)
      /\ statusSent[p] => v.fired

\* A platform with an eligible status, neither changed nor recovered, for
\* which the notifier was not called.
C1_Witness ==
  \E p \in Platforms :
    /\ ~IsNull(verdict[p])
    /\ ~Get(verdict[p]).changed
    /\ ~Get(verdict[p]).recovered
    /\ Get(verdict[p]).shouldNotify
    /\ ~Get(verdict[p]).fired

\* The tracked platform has current data in this run, the previous run was
\* a cold start for it, and both runs fetched the same review info.
SecondIdenticalRun ==
  /\ ~IsNull(verdict[track])
  /\ ~IsNull(prevRun)
  /\ Get(prevRun).cold
  /\ Get(prevRun).cur = Get(verdict[track]).cur

C3_NoDuplicate ==
  ~(notifiedBefore /\ ~IsNull(verdict[track]) /\ Get(verdict[track]).delivered)

\* The App Store statuses the README lists as notification triggers.
AppStoreTriggers ==
  {"READY_FOR_SALE", "PENDING_DEVELOPER_RELEASE", "PENDING_APPLE_RELEASE",
   "REJECTED", "METADATA_REJECTED", "INVALID_BINARY"}

\* C11: for the App Store a notification fires only when the current status
\* is one of READY_FOR_SALE, PENDING_DEVELOPER_RELEASE, PENDING_APPLE_RELEASE,
\* REJECTED, METADATA_REJECTED, INVALID_BINARY; no other member of
\* AppStoreReviewStatus (DEVELOPER_REJECTED, REMOVED_FROM_SALE, ...) notifies.
C11_AppStoreAllowList ==
  (FnDone /\ fnPlatform = "appStore" /\ Get(fnVerdict).fired)
    => Get(fnCur).status \in AppStoreTriggers

\* C12: over draft, inProgress, halted, completed, a Google Play status is
\* notify-eligible exactly when it is completed, so a notification fires
\* only with current status completed.
C12_GooglePlayCompleted ==
  (FnDone /\ fnPlatform = "googlePlay") =>
    /\ Get(fnVerdict).shouldNotify <=> Get(fnCur).status = "completed"
    /\ Get(fnVerdict).fired => Get(fnCur).status = "completed"

\* Google Play reports halted for a new version code: not eligible, silent.
C12_Witness ==
  /\ FnDone
  /\ fnPlatform = "googlePlay"
  /\ Get(fnCur).status = "halted"
  /\ Get(fnVerdict).changed
  /\ ~Get(fnVerdict).shouldNotify
  /\ ~Get(fnVerdict).fired

\* The entry the run loaded for platform p, Null on a cold start.
RunPrior(p) ==
  IF IsNull(previousCache) THEN Null ELSE Get(previousCache)[p]

\* The version of an entry or review info of platform p.
VersionOf(p, e) == IF p = "appStore" THEN e.version ELSE e.versionCode

\* For platform p the current build number is known and differs from the
\* loaded one while the version is the same (App Store only).
BuildAloneChanged(p, cur, prior) ==
  /\ p = "appStore"
  /\ cur.version = prior.version
  /\ cur.buildNumber # NoBuild
  /\ cur.buildNumber # prior.buildNumber

\* C13: with a notify-eligible current status, a version different from the
\* stored snapshot's (Scenario A), or the same version with a different
\* build number (Scenario B), fires a notification.
C13_ChangeFires ==
  \A p \in Platforms :
    (~IsNull(verdict[p]) /\ ~IsNull(RunPrior(p))) =>
      LET cur == Get(verdict[p]).cur
          prior == Get(RunPrior(p))
      IN (/\ shouldSendNotification(cur.status)
          /\ \/ VersionOf(p, cur) # VersionOf(p, prior)
             \/ BuildAloneChanged(p, cur, prior))
           => Get(verdict[p]).fired

\* Scenario B in a run: same version, new build, READY_FOR_SALE before and
\* now, and the notifier was called.
C13_Witness ==
  /\ ~IsNull(verdict.appStore)
  /\ ~IsNull(RunPrior("appStore"))
  /\ BuildAloneChanged("appStore", Get(verdict.appStore).cur,
                       Get(RunPrior("appStore")))
  /\ Get(RunPrior("appStore")).status = "READY_FOR_SALE"
  /\ Get(verdict.appStore).cur.status = "READY_FOR_SALE"
  /\ Get(verdict.appStore).fired

\* The statuses Case 2 of the README calls rejected and approved.
RejectedNames == {"REJECTED", "METADATA_REJECTED"}

ApprovedNames == {"READY_FOR_SALE", "PENDING_DEVELOPER_RELEASE"}

\* The classified review info has the version and build of the prior entry.
SameVersionAndBuild ==
  /\ ~IsNull(FnPrior)
  /\ VersionOf(fnPlatform, Get(fnCur)) = VersionOf(fnPlatform, Get(FnPrior))
  /\ fnPlatform = "appStore" => Get(fnCur).buildNumber = Get(FnPrior).buildNumber

RunEnded == pc = "idle" /\ exit \in {"completed", "failed", "crashed"}

\* C15: save is attempted exactly once in every run, also in runs without a
\* notification and in runs in which a platform's fetch failed.
C15_SaveOnce ==
  /\ Len(saves) <= 1
  /\ RunEnded => Len(saves) = 1

\* C16: a failure while handling one platform (fetch error, monitor
\* construction error, delivery error) is isolated: the run does not fail,
\* both platform blocks are still passed, and the record is still committed.
C16_FailureIsolated ==
  /\ exit # "failed"
  /\ pc = "googlePlay" => fetched.appStore # "pending"
  /\ pc = "save" => \A p \in Platforms : fetched[p] # "pending"
  /\ RunEnded => saves # <<>>

\* C17: an unreadable or malformed persisted record, also one that parses
\* but whose entries lack fields, never aborts the run and never suppresses
\* a platform's evaluation; the platform is classified as on a cold start.
C17_LoadDegrades ==
  \A p \in Platforms :
    (fetched[p] = "data" /\ ~loadOk) =>
      /\ ~IsNull(verdict[p])
      /\ Get(verdict[p]).changed
      /\ ~Get(verdict[p]).recovered

\* C18: the record a successful save writes is currentCache alone: it has an
\* entry exactly for the platforms that had current data in the run, and
\* none for any other platform, whatever the loaded record held.
C18_NewRecordNotMerge ==
  [][(pc = "save" /\ saves' = <<TRUE>>) =>
       \A p \in Platforms :
         /\ fetched[p] = "data" <=> ~IsNull(Get(stored')[p])
         /\ Get(stored')[p] = currentCache[p]]_vars

\* About to save: the loaded record had an App Store entry, this run got no
\* App Store data (nothing returned) but did get Google Play data.
C18_Witness ==
  /\ pc = "save"
  /\ ~IsNull(RunPrior("appStore"))
  /\ fetched.appStore = "none"
  /\ fetched.googlePlay = "data"
  /\ IsNull(currentCache.appStore)
  /\ ~IsNull(currentCache.googlePlay)

\* C19: for every platform with current data the fetched (version, build,
\* status) is the platform's entry of the new record, whether or not a
\* notification fired and whether or not its delivery succeeded.
C19_RecordedUnconditionally ==
  \A p \in Platforms :
    /\ fetched[p] = "data" => ~IsNull(currentCache[p])
    /\ ~IsNull(verdict[p]) => currentCache[p] = Some(Get(verdict[p]).cur)

\* A notification fired for a changed version, its delivery failed, and the
\* new snapshot is in the new record all the same.
C19_Witness ==
  \E p \in Platforms :
    /\ ~IsNull(verdict[p])
    /\ ~IsNull(RunPrior(p))
    /\ VersionOf(p, Get(verdict[p]).cur) # VersionOf(p, Get(RunPrior(p)))
    /\ Get(verdict[p]).fired
    /\ ~Get(verdict[p]).delivered
    /\ currentCache[p] = Some(Get(verdict[p]).cur)

\* C20: a platform without current data in a run (not configured, fetch
\* failed, nothing returned) is skipped: no verdict, no entry in the new
\* record, no notification.
C20_NoDataSkipped ==
  \A p \in Platforms :
    fetched[p] \in {"skipped", "error", "none"} =>
      /\ IsNull(verdict[p])
      /\ IsNull(currentCache[p])
      /\ ~statusSent[p]

\* The App Store fetch failed in a run that had loaded an App Store entry
\* with an eligible status: nothing was computed, recorded or sent for it.
C20_Witness ==
  /\ fetched.appStore = "error"
  /\ ~IsNull(RunPrior("appStore"))
  /\ Get(RunPrior("appStore")).status = "READY_FOR_SALE"
  /\ IsNull(verdict.appStore)
  /\ IsNull(currentCache.appStore)
  /\ ~statusSent.appStore

C29_NoBuildNoMismatch ==
  (/\ FnDone
   /\ fnPlatform = "appStore"
   /\ ~IsNull(FnPrior)
   /\ Get(fnCur).version = Get(FnPrior).version
   /\ Get(fnCur).buildNumber = NoBuild)
    => ~Get(fnVerdict).changed

\* The prior snapshot has build MaxBuild, the current review info has the
\* same version and no build number: not changed.
C29_Witness ==
  /\ FnDone
  /\ fnPlatform = "appStore"
  /\ ~IsNull(FnPrior)
  /\ Get(FnPrior).buildNumber = MaxBuild
  /\ Get(fnCur).version = Get(FnPrior).version
  /\ Get(fnCur).buildNumber = NoBuild
  /\ ~Get(fnVerdict).changed

\* The tracked platform has current data in this run, and the previous
\* run's fetch for it failed.
FetchedAfterFailure == ~IsNull(verdict[track]) /\ prevFetchFailed

DeliveryFailed(p) ==
  /\ ~IsNull(verdict[p])
  /\ Get(verdict[p]).fired
  /\ ~Get(verdict[p]).delivered

\* C22: a delivery failure for one platform does not block the other
\* platform's block, and the platform's fetched snapshot is still its entry
\* in the record a successful save commits.
C22_DeliveryFailureIsolated ==
  /\ [](\A p \in Platforms :
          DeliveryFailed(p) =>
            /\ currentCache[p] = Some(Get(verdict[p]).cur)
            /\ pc \in {"googlePlay", "save"}
            /\ pc = "save" => fetched.googlePlay # "pending")
  /\ [][(pc = "save" /\ saves' = <<TRUE>>) =>
          \A p \in Platforms :
            DeliveryFailed(p) => Get(stored')[p] = Some(Get(verdict[p]).cur)]_vars

\* The App Store delivery failed; the Google Play block ran after it and
\* delivered its notification; both entries are about to be committed.
C22_Witness ==
  /\ pc = "save"
  /\ DeliveryFailed("appStore")
  /\ ~IsNull(verdict.googlePlay)
  /\ Get(verdict.googlePlay).delivered
  /\ ~IsNull(currentCache.appStore)
  /\ ~IsNull(currentCache.googlePlay)

\* C23: a run whose write of the record failed still ends as completed and
\* has published its notification-sent outcome (in the Bitrise step the
\* export of the variable is a separate call that can fail on its own).
C23_SaveFailureNotFatal ==
  (pc = "idle" /\ saves = <<FALSE>> /\ exit # "crashed") =>
    /\ exit = "completed"
    /\ notificationSent \in {"true", "false", "exportFailed"}
    /\ (impl = "ts" => notificationSent \in {"true", "false"})

\* A run ended after its write failed and published "true".
C23_Witness ==
  /\ pc = "idle"
  /\ saves = <<FALSE>>
  /\ exit = "completed"
  /\ notificationSent = "true"

\* C24: the notification-sent output of a run that ends is "true" exactly
\* when a notification was sent for at least one platform in that run, and
\* the value of the run before is not visible while a run is in progress.
C24_OutputIsOr ==
  /\ [](pc # "idle" => notificationSent = "unset")
  /\ [][(pc # "idle" /\ pc' = "idle" /\ exit' # "crashed") =>
          (notificationSent' = "true" <=>
             (statusSent.appStore \/ statusSent.googlePlay))]_vars

\* C25: whatever happens during the save, the store afterwards holds either
\* the record it held before or the record being saved, so that the next
\* load returns one of the two.
C25_AtomicSave ==
  [][pc = "save" =>
       /\ stored' \in {stored, Some(currentCache)}
       /\ Load(FALSE)' \in {stored, Some(currentCache)}]_vars

\* The Slack configurations the run refuses: neither a webhook URL nor a bot
\* token, or a bot token without a channel.
Unusable(cfg) ==
  \/ ~cfg.webhookUrl /\ ~cfg.botToken
  \/ cfg.botToken /\ ~cfg.channel

\* C26: exactly the unusable Slack configurations end the run as a
\* configuration error, and such a run fetches no platform, sends no
\* notification, attempts no save and leaves the stored record as it was.
C26_ConfigurationError ==
  /\ [](\A cfg \in SlackConfigs : Unusable(cfg) <=> ~validateConfig(cfg))
  /\ [](exit = "configError" =>
          /\ pc = "idle"
          /\ ~IsNull(slack)
          /\ Unusable(Get(slack))
          /\ fetched = Pending
          /\ statusSent = NoFlags
          /\ saves = <<>>
          /\ notificationSent = "unset")
  /\ [](pc # "idle" => IsNull(slack))
  /\ [][exit' = "configError" => (pc = "idle" /\ stored' = stored)]_vars

\* A run given a bot token without a channel ended as a configuration error
\* while a record of an earlier run is in the store.
C26_Witness ==
  /\ exit = "configError"
  /\ Len(stored) = 1
  /\ ~IsNull(slack)
  /\ Get(slack).botToken
  /\ ~Get(slack).channel

\* C28: a platform is monitored only when every one of its inputs is
\* non-empty; otherwise it is skipped, leaving no entry, no verdict and no
\* flag, the run goes on to the other platform and to the save, and the
\* save ends the run normally.
C28_MonitoredOnlyWhenComplete ==
  /\ [](\A p \in Platforms :
          /\ fetched[p] \in {"error", "none", "data"} => given[p] = InputsOf(p)
          /\ fetched[p] = "skipped" =>
                /\ given[p] # InputsOf(p)
                /\ IsNull(currentCache[p])
                /\ IsNull(verdict[p])
                /\ ~statusSent[p]
                /\ pc \in {"googlePlay", "save"}
                /\ pc = "save" => fetched.googlePlay # "pending")
  /\ [][(pc = "save" /\ \E p \in Platforms : fetched[p] = "skipped") =>
          exit' \in {"completed", "crashed"}]_vars

\* One App Store input is missing, the App Store was skipped and the Google
\* Play block fetched data and recorded it.
C28_Witness ==
  /\ pc = "save"
  /\ fetched.appStore = "skipped"
  /\ given.appStore # {}
  /\ fetched.googlePlay = "data"
  /\ ~IsNull(currentCache.googlePlay)

\* C30: while a run is in progress the store has been read once and not yet
\* written; every verdict was computed against the record loaded at the
\* start of the run; a run that has ended has read once and written once.
C30_ReadOnceWriteOnce ==
  /\ pc # "idle" => (loads = 1 /\ saves = <<>>)
  /\ \A p \in Platforms :
       ~IsNull(verdict[p]) =>
         LET v == Get(verdict[p]) IN
           /\ v.changed = Changed(impl, p, v.cur, previousCache)
           /\ v.recovered = Recovered(impl, p, v.cur, previousCache)
  /\ RunEnded => (loads = 1 /\ Len(saves) = 1)

\* The other platform.
Other(p) == IF p = "appStore" THEN "googlePlay" ELSE "appStore"

\* The loaded record with the entry of the other platform taken out.
WithoutOther(previous, p) ==
  IF IsNull(previous) THEN previous
  ELSE Some([Get(previous) EXCEPT ![Other(p)] = Null])

\* C31: the verdicts of a platform are those the classifier gives on the
\* loaded record without the other platform's entry, so they depend on the
\* stored entry of the same platform only.
C31_SamePlatformOnly ==
  [](\A p \in Platforms :
      ~IsNull(verdict[p]) =>
        LET v == Get(verdict[p]) IN
          /\ v.changed = Changed(impl, p, v.cur, WithoutOther(previousCache, p))
          /\ v.recovered = Recovered(impl, p, v.cur, WithoutOther(previousCache, p))
          /\ v.shouldNotify = shouldSendNotification(v.cur.status)
          /\ v.fired = NotifyCondition(v.changed, v.recovered, v.shouldNotify))

\* Both platforms were classified against a record holding both entries,
\* the stored App Store entry is a rejection and Google Play is completed,
\* yet Google Play is neither changed nor recovered.
C31_Witness ==
  /\ ~IsNull(verdict.appStore)
  /\ ~IsNull(verdict.googlePlay)
  /\ ~IsNull(previousCache)
  /\ ~IsNull(Get(previousCache).appStore)
  /\ ~IsNull(Get(previousCache).googlePlay)
  /\ Get(Get(previousCache).appStore).status = "REJECTED"
  /\ Get(Get(previousCache).googlePlay).status = "completed"
  /\ Get(verdict.googlePlay).cur.status = "completed"
  /\ ~Get(verdict.googlePlay).changed
  /\ ~Get(verdict.googlePlay).recovered
  /\ Get(verdict.appStore).changed

\* Platform p was recorded by an earlier run in a status outside the
\* allow-list and is now fetched with the same version and build in a
\* notify-eligible status.
LateEligible(p) ==
  /\ ~IsNull(verdict[p])
  /\ ~IsNull(RunPrior(p))
  /\ LET cur == Get(verdict[p]).cur
         prior == Get(RunPrior(p))
     IN /\ prior.status # NoStatus
        /\ ~shouldSendNotification(prior.status)
        /\ shouldSendNotification(cur.status)
        /\ VersionOf(p, cur) = VersionOf(p, prior)
        /\ p = "appStore" => cur.buildNumber = prior.buildNumber

\* C32: a version recorded in a non-eligible status that reaches a
\* notify-eligible status with the same version and build is notified in
\* the run that observes the eligible status.
C32_LateEligibleNotified ==
  \A p \in Platforms : LateEligible(p) => Get(verdict[p]).fired

\* C33: for every prior snapshot and every current observation of a
\* platform the TypeScript action and the Go step compute the same changed,
\* recovered and shouldNotify values.
C33_SameDecision ==
  FnDone =>
    LET ts == Classify("ts", fnPlatform, Get(fnCur), previousCache)
        go == Classify("go", fnPlatform, Get(fnCur), previousCache)
    IN /\ ts.changed = go.changed
       /\ ts.recovered = go.recovered
       /\ ts.shouldNotify = go.shouldNotify

\* C34: whenever hasRecoveredFromRejection is true the status gate is open
\* too, so that a detected recovery always calls the notifier.
C34_RecoveryPassesGate ==
  (FnDone /\ Get(fnVerdict).recovered) =>
    /\ shouldSendNotification(Get(fnCur).status)
    /\ Get(fnVerdict).shouldNotify
    /\ Get(fnVerdict).fired

\* A Google Play release stored as rejected-like and now completed with the
\* same version code: recovered, not changed, and the notifier is called.
C34_Witness ==
  /\ FnDone
  /\ fnPlatform = "googlePlay"
  /\ Get(fnCur).status = "completed"
  /\ Get(fnVerdict).recovered
  /\ ~Get(fnVerdict).changed
  /\ Get(fnVerdict).fired

\* In the run before, the notifier was called for the tracked platform and
\* the delivery failed, the record of that run was saved, and this run has
\* fetched the same review info.
RefetchedAfterFailedDelivery ==
  /\ ~IsNull(prevRun)
  /\ Get(prevRun).fired
  /\ ~Get(prevRun).delivered
  /\ prevSaved
  /\ ~IsNull(verdict[track])
  /\ Get(verdict[track]).cur = Get(prevRun).cur

\* C35 as stated: after a failed delivery whose snapshot was committed, a
\* following run with identical fetched data sends nothing.
C35_Original ==
  RefetchedAfterFailedDelivery => ~Get(verdict[track]).fired

\* C35: the same, for a following run that loads the committed snapshot.
C35_NotRetried ==
  (RefetchedAfterFailedDelivery /\ loadOk) =>
    /\ ~Get(verdict[track]).changed
    /\ ~Get(verdict[track]).fired
    /\ ~statusSent[track]

\* A notify-eligible observation whose delivery failed in the run before
\* and was never delivered is fetched again and the notifier is not called.
C35_Witness ==
  /\ RefetchedAfterFailedDelivery
  /\ loadOk
  /\ ~notifiedBefore
  /\ Get(verdict[track]).shouldNotify
  /\ ~Get(verdict[track]).fired

\* The App Store review info of this run came back without a build number
\* (the build lookup failed) while the loaded record has an entry of the
\* same version.
BuildLookupFailed ==
  /\ ~IsNull(verdict.appStore)
  /\ Get(verdict.appStore).cur.buildNumber = NoBuild
  /\ ~IsNull(RunPrior("appStore"))
  /\ Get(RunPrior("appStore")).version = Get(verdict.appStore).cur.version

\* The run before recorded the App Store without a build number and saved
\* its record; this run observes a build number.
BuildSeenAgain ==
  /\ track = "appStore"
  /\ ~IsNull(prevRun)
  /\ Get(prevRun).cur.buildNumber = NoBuild
  /\ prevSaved
  /\ ~IsNull(verdict.appStore)
  /\ Get(verdict.appStore).cur.buildNumber # NoBuild

\* C36: a failed build lookup still yields review info, without the build;
\* the run is not classified as changed on that account and records an
\* entry without build number; after that record is committed, the next
\* run that observes the build number is classified as changed.
C36_BuildLookupFailure ==
  /\ (~IsNull(verdict.appStore)
       /\ Get(verdict.appStore).cur.buildNumber = NoBuild) =>
        /\ fetched.appStore = "data"
        /\ currentCache.appStore = Some(Get(verdict.appStore).cur)
  /\ BuildLookupFailed => ~Get(verdict.appStore).changed
  /\ BuildSeenAgain => Get(verdict.appStore).changed

\* The store never changed: the run before lost the build number without
\* being classified as changed, and this run, which loaded that record and
\* sees the build number again, is classified as changed.
C36_Witness ==
  /\ BuildSeenAgain
  /\ ~Get(prevRun).cold
  /\ ~Get(prevRun).changed
  /\ loadOk
  /\ ~Get(verdict.appStore).cold
  /\ Get(verdict.appStore).changed

\* The platforms in the sequence of notifier calls.
Notified == {sends[i] : i \in 1..Len(sends)}

\* C37: in one run the notifier is called at most once per platform, at
\* most twice in all, for the App Store before Google Play; while the App
\* Store block is pending nothing has been evaluated, and Google Play is
\* evaluated only after the App Store block has been passed.
C37_OncePerPlatformInOrder ==
  [](/\ sends \in {<<>>, <<"appStore">>, <<"googlePlay">>,
                    <<"appStore", "googlePlay">>}
     /\ \A p \in Platforms :
          p \in Notified <=> (~IsNull(verdict[p]) /\ Get(verdict[p]).fired)
     /\ pc = "appStore" => (sends = <<>> /\ verdict = EmptyCache)
     /\ pc = "googlePlay" =>
          (IsNull(verdict.googlePlay) /\ fetched.appStore # "pending"))

\* Both platforms were notified in this run, each once.
C37_Witness ==
  /\ pc = "save"
  /\ sends = <<"appStore", "googlePlay">>
  /\ statusSent.appStore
  /\ statusSent.googlePlay

\* C38: when a call of the Google Play fetch has returned, on whichever
\* path, the edit it created no longer exists.
C38_EditDeleted ==
  gp.step = "idle" => (gp.leaked = 0 /\ ~gp.hasEdit)

\* The text `version (build)`.
Joined(version, build) ==
  ToString(version) \o " (" \o ToString(build) \o ")"

\* C39: the record handed to the notifier has, for the App Store, the
\* version joined with the build as "version (build)" when a build is
\* present and the bare version otherwise (for Google Play the version
\* code), and carries previousStatus exactly when the loaded record has an
\* entry with a status for that platform, which it then equals.
C39_PayloadShape ==
  [](\A p \in Platforms :
       ~IsNull(verdict[p]) =>
         LET v == Get(verdict[p])
             prior == RunPrior(p)
             hasStatus == ~IsNull(prior) /\ Get(prior).status # NoStatus
         IN /\ IsNull(v.payload) <=> ~v.fired
            /\ ~IsNull(v.payload) =>
                 LET sent == Get(v.payload) IN
                 /\ sent.currentStatus = v.cur.status
                 /\ sent.version =
                      IF p = "googlePlay" THEN ToString(v.cur.versionCode)
                      ELSE IF v.cur.buildNumber = NoBuild
                           THEN ToString(v.cur.version)
                           ELSE Joined(v.cur.version, v.cur.buildNumber)
                 /\ IsNull(sent.previousStatus) <=> ~hasStatus
                 /\ hasStatus => sent.previousStatus = Some(Get(prior).status))

\* Both shapes in one run: the App Store record with the build joined and a
\* previous status, the Google Play record on a cold start without one.
C39_Witness ==
  /\ ~IsNull(verdict.appStore)
  /\ ~IsNull(verdict.googlePlay)
  /\ ~IsNull(Get(verdict.appStore).payload)
  /\ ~IsNull(Get(verdict.googlePlay).payload)
  /\ Get(Get(verdict.appStore).payload).version = "2 (1)"
  /\ Get(Get(verdict.appStore).payload).previousStatus = Some("REJECTED")
  /\ Get(Get(verdict.googlePlay).payload).version = "2"
  /\ IsNull(Get(Get(verdict.googlePlay).payload).previousStatus)
====
